---- MODULE Spec2Model ----
(***************************************************************************)
(* A model of sshells (src/main.rs): the shell picker with a countdown to  *)
(* the default shell.  Indices are 0-based as in the source; At(s, i) is   *)
(* the source's s[i].  Time is counted in clock ticks, TicksPerSec to the  *)
(* second.                                                                 *)
(***************************************************************************)
EXTENDS Integers, Sequences, FiniteSets, TLC

VARIABLES
    cfg,          \* the entries parsed from the configuration file (name, path, args)
    env,          \* the environment: variable name -> value, for the defined ones
    path_parts,   \* how the path of the first-named entry of cfg is composed
    sshells,      \* Arc<Vec<Sshell>>: the configuration as read_config returns it
    fs,           \* the expanded paths that exist in the file system
    now,          \* Instant::now()
    pc,           \* "config": in read_config; "start": read_config has returned;
                  \* "ui": inside siv.run(); "exited"
    timer,        \* TimerState {end_time, active}
    items,        \* the SelectView's items: (label, value) pairs
    focus,        \* the SelectView's highlighted list position
    running,      \* cursive's is_running flag (cleared by s.quit())
    launches,     \* every call of Sshell::run: what Command::new was given
    cancel_count, \* how often on_select has taken its `if timer.active` branch
    exit_status,  \* "none", "success" (exit code 0) or "panic"
    timer_lock,   \* the Mutex around TimerState: "free" or "held"
    stdout        \* what main printed

cfgvars == <<cfg, env, path_parts>>

vars == <<cfg, env, path_parts, sshells, fs, now, pc, timer, items, focus, running, launches,
          cancel_count, exit_status, timer_lock, stdout>>

----------------------------------------------------------------------------
(* Bounds *)

MaxShells == 3
TicksPerSec == 2
MaxStart == 1
MaxOver == 2
MaxParts == 3

(* Program constants *)

DEFAULT_SHELL_INDEX == 0
DEFAULT_TIMEOUT == 3

NoShellsMessage == "No shells configured or configuration file not found."

----------------------------------------------------------------------------
(* Data *)

At(s, i) == s[i + 1]

\* The shells a configuration file may list.
ShellPool ==
    { [name |-> "cmd",  expanded_path |-> "C:/Windows/System32/cmd.exe",
       args |-> <<>>],
      [name |-> "pwsh", expanded_path |-> "C:/Program Files/PowerShell/7/pwsh.exe",
       args |-> <<"-NoLogo">>],
      [name |-> "bash", expanded_path |-> "C:/Windows/System32/bash.exe",
       args |-> <<>>] }

PoolPaths == { sh.expanded_path : sh \in ShellPool }

Configs == UNION { [1..n -> ShellPool] : n \in 0..MaxShells }

\* The label of an entry: its plain name ...
PlainLabel(name) == <<name>>

\* ... or format!("{} ({})", name, secs).
CountdownLabel(name, secs) == <<name, secs>>

\* Sshell::exists
exists(sshell) == sshell.expanded_path \in fs

\* What .spawn() may return for a shell: Ok (TRUE) or Err (FALSE).  A missing
\* path never starts; an existing one may still fail to start.
SpawnOutcomes(sshell) == IF exists(sshell) THEN {TRUE, FALSE} ELSE {FALSE}

----------------------------------------------------------------------------
(* sshells_select: the list of (existing) shells *)

RECURSIVE add_items(_, _)
add_items(shs, i) ==
    IF i >= Len(shs) THEN <<>>
    ELSE (IF exists(At(shs, i))
          THEN << [label |-> PlainLabel(At(shs, i).name), value |-> i] >>
          ELSE <<>>) \o add_items(shs, i + 1)

RECURSIVE add_items_by_position(_, _, _)
add_items_by_position(shs, i, n) ==
    IF i >= Len(shs) THEN <<>>
    ELSE IF exists(At(shs, i))
         THEN << [label |-> PlainLabel(At(shs, i).name), value |-> n] >>
              \o add_items_by_position(shs, i + 1, n + 1)
         ELSE add_items_by_position(shs, i + 1, n)

\* Mutant: each item carries its list position instead of its configuration index.
select_items_by_position(shs) == add_items_by_position(shs, 0, 0)

\* Mutant: the existence filter is left out.
select_items_unfiltered(shs) ==
    [k \in 1..Len(shs) |-> [label |-> PlainLabel(shs[k].name), value |-> k - 1]]

select_items(shs) == add_items(shs, 0)

\* set_shell_label: get_item_mut(index) is None past the end of the list.
set_shell_label(its, index, label) ==
    IF index < Len(its)
    THEN [its EXCEPT ![index + 1].label = label]
    ELSE its

----------------------------------------------------------------------------
(* Sshell::run: spawn the shell, then exit the process (or panic) *)

\* Mutant: the process does not exit after the spawn.
Sshell_run_no_exit(index, by, ok) ==
    /\ launches' = Append(launches,
          [index |-> index,
           expanded_path |-> At(sshells, index).expanded_path,
           args |-> At(sshells, index).args,
           by |-> by, pos |-> focus, started |-> ok])
    /\ UNCHANGED <<pc, exit_status>>

\* Mutant: the result of spawn() is ignored.
Sshell_run_ignore_failure(index, by, ok) ==
    /\ launches' = Append(launches,
          [index |-> index,
           expanded_path |-> At(sshells, index).expanded_path,
           args |-> At(sshells, index).args,
           by |-> by, pos |-> focus, started |-> ok])
    /\ pc' = "exited"
    /\ exit_status' = "success"

Sshell_run(index, by, ok) ==
    /\ launches' = Append(launches,
          [index |-> index,
           expanded_path |-> At(sshells, index).expanded_path,
           args |-> At(sshells, index).args,
           by |-> by, pos |-> focus, started |-> ok])
    /\ pc' = "exited"
    /\ exit_status' = IF ok THEN "success" ELSE "panic"

----------------------------------------------------------------------------
(* The on_select callback *)

\* timer_state.lock().unwrap(): the caller goes on only with the lock free.
lock_acquired == timer_lock = "free"

\* `if timer.active { .. }`: clear the flag, show the plain name again.
cancel_timer ==
    /\ timer' = [timer EXCEPT !.active = FALSE]
    /\ cancel_count' = cancel_count + 1
    /\ items' = set_shell_label(items, DEFAULT_SHELL_INDEX,
                    PlainLabel(At(sshells, DEFAULT_SHELL_INDEX).name))

\* Mutant: the flag is toggled instead of cleared.
on_select_toggle ==
    /\ lock_acquired
    /\ timer' = [timer EXCEPT !.active = ~timer.active]
    /\ IF timer.active
       THEN /\ cancel_count' = cancel_count + 1
            /\ items' = set_shell_label(items, DEFAULT_SHELL_INDEX,
                            PlainLabel(At(sshells, DEFAULT_SHELL_INDEX).name))
       ELSE UNCHANGED <<cancel_count, items>>
    /\ timer_lock' = "free"

\* Mutant: the `if timer.active` test is left out.
on_select_unguarded ==
    /\ lock_acquired
    /\ cancel_timer
    /\ timer_lock' = "free"

\* Mutant: user activity restarts the grace period.
on_select_restart ==
    /\ lock_acquired
    /\ IF timer.active
       THEN /\ timer' = [end_time |-> now + DEFAULT_TIMEOUT * TicksPerSec,
                         active |-> FALSE]
            /\ cancel_count' = cancel_count + 1
            /\ items' = set_shell_label(items, DEFAULT_SHELL_INDEX,
                            PlainLabel(At(sshells, DEFAULT_SHELL_INDEX).name))
       ELSE UNCHANGED <<timer, cancel_count, items>>
    /\ timer_lock' = "free"

\* Mutant: the guard outlives the callback (the lock is never released).
on_select_keeps_lock ==
    /\ lock_acquired
    /\ IF timer.active
       THEN cancel_timer
       ELSE UNCHANGED <<timer, cancel_count, items>>
    /\ timer_lock' = "held"

\* Mutant: the label is not reset on cancellation.
on_select_no_reset ==
    /\ lock_acquired
    /\ IF timer.active
       THEN /\ timer' = [timer EXCEPT !.active = FALSE]
            /\ cancel_count' = cancel_count + 1
            /\ UNCHANGED items
       ELSE UNCHANGED <<timer, cancel_count, items>>
    /\ timer_lock' = "free"

\* Mutant: the callback cancels nothing.
on_select_noop ==
    /\ lock_acquired
    /\ UNCHANGED <<timer, cancel_count, items>>
    /\ timer_lock' = "free"

\* The guard is dropped when the closure returns.
on_select ==
    /\ lock_acquired
    /\ IF timer.active
       THEN cancel_timer
       ELSE UNCHANGED <<timer, cancel_count, items>>
    /\ timer_lock' = "free"

----------------------------------------------------------------------------
(* handle_timer_tick *)

\* Duration::as_secs: whole seconds, rounded down.
as_secs(duration) == duration \div TicksPerSec

\* The `if !timer.active { return; }` branch.
tick_return ==
    /\ UNCHANGED <<timer, running, launches, pc, exit_status, items>>
    /\ timer_lock' = "free"

\* The `now >= timer.end_time` branch: Sshell::run never returns, so the guard
\* is still alive when the process ends.
tick_expire ==
    /\ timer' = [timer EXCEPT !.active = FALSE]
    /\ running' = FALSE
    /\ \E ok \in SpawnOutcomes(At(sshells, DEFAULT_SHELL_INDEX)) :
           Sshell_run(DEFAULT_SHELL_INDEX, "expiry", ok)
    /\ UNCHANGED items
    /\ timer_lock' = "held"

\* The else branch: the countdown label.
tick_countdown ==
    /\ items' = set_shell_label(items, DEFAULT_SHELL_INDEX,
                    CountdownLabel(At(sshells, DEFAULT_SHELL_INDEX).name,
                                   as_secs(timer.end_time - now) + 1))
    /\ UNCHANGED <<timer, running, launches, pc, exit_status>>
    /\ timer_lock' = "free"

\* Mutant: the `if !timer.active { return; }` test is left out.
handle_timer_tick_unguarded ==
    /\ lock_acquired
    /\ IF now >= timer.end_time THEN tick_expire ELSE tick_countdown

\* Mutant: on expiry the UI is quit but the default shell is not run.
handle_timer_tick_quit_only ==
    /\ lock_acquired
    /\ IF ~timer.active THEN tick_return
       ELSE IF now >= timer.end_time
       THEN /\ timer' = [timer EXCEPT !.active = FALSE]
            /\ running' = FALSE
            /\ UNCHANGED <<launches, pc, exit_status, items>>
            /\ timer_lock' = "free"
       ELSE tick_countdown

\* Mutant: the comparison with the deadline is inverted.
handle_timer_tick_inverted ==
    /\ lock_acquired
    /\ IF ~timer.active THEN tick_return
       ELSE IF now <= timer.end_time THEN tick_expire
       ELSE tick_countdown

handle_timer_tick ==
    /\ lock_acquired
    /\ IF ~timer.active THEN tick_return
       ELSE IF now >= timer.end_time THEN tick_expire
       ELSE tick_countdown

----------------------------------------------------------------------------
(* The global 'q' callback *)

\* Mutant: quitting falls back to the default shell.
quit_callback_runs_default ==
    /\ running' = FALSE
    /\ \E ok \in SpawnOutcomes(At(sshells, DEFAULT_SHELL_INDEX)) :
           Sshell_run(DEFAULT_SHELL_INDEX, "quit", ok)

quit_callback ==
    /\ running' = FALSE
    /\ UNCHANGED <<launches, pc, exit_status>>

----------------------------------------------------------------------------
(* expand_env_vars and read_config.  Strings are sequences of characters. *)

\* [[:word:]], as far as the model's strings go
WordChars == {"A", "B", "S"}

\* The characters a configured path is written with.
PathChars == {"%", "A", "B", "\\"}

\* The variables a configured path may name.
VarNames == { <<"A">>, <<"B">>, <<"A", "B">> }

\* PROGRAM_DATA: "%SystemDrive%\\ProgramData\\dzonder\\SSHells", shortened.
PROGRAM_DATA == <<"%", "S", "%", "\\">>

\* The value of each variable when it is defined.  One value looks like a
\* token itself.
EnvValue(name) ==
    CASE name = <<"A">> -> <<"C", ":">>
      [] name = <<"B">> -> <<"%", "A", "%">>
      [] name = <<"A", "B">> -> <<"\\", "A">>
      [] OTHER -> <<"C", ":">>

Envs ==
    { [n \in D |-> EnvValue(n)] : D \in SUBSET (VarNames \cup { <<"S">> }) }

\* A path is composed of literal characters and %NAME% tokens.
Parts ==
    { [kind |-> "lit", text |-> <<c>>] : c \in PathChars }
      \cup { [kind |-> "var", text |-> n] : n \in VarNames }

Templates == UNION { [1..n -> Parts] : n \in 0..MaxParts }

RenderPart(part) ==
    IF part.kind = "var" THEN <<"%">> \o part.text \o <<"%">> ELSE part.text

RECURSIVE Render(_)
Render(parts) ==
    IF parts = <<>> THEN <<>> ELSE RenderPart(Head(parts)) \o Render(Tail(parts))

\* The length of the longest run of word characters of s from position i on.
RECURSIVE word_run(_, _)
word_run(s, i) ==
    IF i <= Len(s) /\ s[i] \in WordChars THEN 1 + word_run(s, i + 1) ELSE 0

\* Whether "%([[:word:]]+)%" matches s at position i: [[:word:]]+ is greedy,
\* and a shorter run is never followed by "%".
matches_at(s, i) ==
    /\ s[i] = "%"
    /\ word_run(s, i + 1) >= 1
    /\ i + 1 + word_run(s, i + 1) <= Len(s)
    /\ s[i + 1 + word_run(s, i + 1)] = "%"

\* Mutant: an undefined variable expands to the empty string (unwrap_or_default).
env_var_or_default(name) ==
    IF name \in DOMAIN env
    THEN [ok |-> TRUE, value |-> env[name]]
    ELSE [ok |-> TRUE, value |-> <<>>]

\* env::var(name): Ok(value) or Err
env_var(name) ==
    IF name \in DOMAIN env
    THEN [ok |-> TRUE, value |-> env[name]]
    ELSE [ok |-> FALSE, value |-> <<>>]

\* The result of a panic in the closure (.expect on an Err).
Panicked == [ok |-> FALSE, value |-> <<>>]

\* Regex::replace_all from position i on: the leftmost matches, not
\* overlapping; replacement text is not scanned again.
RECURSIVE replace_all(_, _)
replace_all(s, i) ==
    IF i > Len(s) THEN [ok |-> TRUE, value |-> <<>>]
    ELSE IF matches_at(s, i)
    THEN LET n == word_run(s, i + 1)
             v == env_var(SubSeq(s, i + 1, i + n))
             rest == replace_all(s, i + n + 2)
         IN  IF v.ok /\ rest.ok
             THEN [ok |-> TRUE, value |-> v.value \o rest.value]
             ELSE Panicked
    ELSE LET rest == replace_all(s, i + 1)
         IN  IF rest.ok
             THEN [ok |-> TRUE, value |-> <<s[i]>> \o rest.value]
             ELSE Panicked

\* Regex::replace: the first match only.
RECURSIVE replace_first(_, _)
replace_first(s, i) ==
    IF i > Len(s) THEN [ok |-> TRUE, value |-> <<>>]
    ELSE IF matches_at(s, i)
    THEN LET n == word_run(s, i + 1)
             v == env_var(SubSeq(s, i + 1, i + n))
         IN  IF v.ok
             THEN [ok |-> TRUE,
                   value |-> v.value \o SubSeq(s, i + n + 2, Len(s))]
             ELSE Panicked
    ELSE LET rest == replace_first(s, i + 1)
         IN  IF rest.ok
             THEN [ok |-> TRUE, value |-> <<s[i]>> \o rest.value]
             ELSE Panicked

\* Mutant: replace instead of replace_all.
expand_env_vars_first_only(path) == replace_first(path, 1)

expand_env_vars(path) == replace_all(path, 1)

\* Mutant: an entry whose path does not resolve is skipped.
read_config_skipping ==
    /\ pc = "config"
    /\ IF expand_env_vars(PROGRAM_DATA).ok
       THEN /\ sshells' = SelectSeq(
                   [k \in 1..Len(cfg) |->
                       [name |-> cfg[k].name, path |-> cfg[k].path,
                        args |-> cfg[k].args,
                        ok |-> expand_env_vars(cfg[k].path).ok,
                        expanded_path |-> expand_env_vars(cfg[k].path).value]],
                   LAMBDA sh : sh.ok)
            /\ pc' = "start"
            /\ UNCHANGED exit_status
       ELSE /\ pc' = "exited"
            /\ exit_status' = "panic"
            /\ UNCHANGED sshells

\* read_config, given the entries parsed from the file: every path is
\* expanded; a panic in any expansion ends the process.
read_config ==
    /\ pc = "config"
    /\ IF /\ expand_env_vars(PROGRAM_DATA).ok
          /\ \A k \in 1..Len(cfg) : expand_env_vars(cfg[k].path).ok
       THEN /\ sshells' =
                   [k \in 1..Len(cfg) |->
                       [name |-> cfg[k].name, path |-> cfg[k].path,
                        args |-> cfg[k].args,
                        expanded_path |-> expand_env_vars(cfg[k].path).value]]
            /\ pc' = "start"
            /\ UNCHANGED exit_status
       ELSE /\ pc' = "exited"
            /\ exit_status' = "panic"
            /\ UNCHANGED sshells

----------------------------------------------------------------------------
(* The state machine *)

Init ==
    /\ cfg = <<>>
    /\ env = <<>>
    /\ path_parts = <<>>
    /\ sshells \in Configs
    /\ fs \in SUBSET PoolPaths
    /\ now = 0
    /\ pc = "start"
    /\ timer = [end_time |-> 0, active |-> FALSE]
    /\ items = <<>>
    /\ focus = 0
    /\ running = FALSE
    /\ launches = <<>>
    /\ cancel_count = 0
    /\ exit_status = "none"
    /\ timer_lock = "free"
    /\ stdout = <<>>

\* setup_tui: the timer, the list with position 0 highlighted, the event loop.
setup_tui ==
    /\ timer' = [end_time |-> now + DEFAULT_TIMEOUT * TicksPerSec, active |-> TRUE]
    /\ timer_lock' = "free"
    /\ items' = select_items(sshells)
    /\ focus' = 0
    /\ running' = TRUE
    /\ pc' = "ui"
    /\ UNCHANGED <<exit_status, stdout>>

\* main
Main ==
    /\ pc = "start"
    /\ IF Len(sshells) = 0
       THEN /\ stdout' = Append(stdout, NoShellsMessage)
            /\ pc' = "exited"
            /\ exit_status' = "success"
            /\ UNCHANGED <<timer, timer_lock, items, focus, running>>
       ELSE setup_tui
    /\ UNCHANGED <<cfgvars, sshells, fs, now, launches, cancel_count>>

\* The event loop delivers events while is_running.
InEventLoop == pc = "ui" /\ running

\* Event::Refresh
Tick ==
    /\ InEventLoop
    /\ handle_timer_tick
    /\ UNCHANGED <<cfgvars, sshells, fs, now, focus, cancel_count, stdout>>

\* A selection event of the list: the highlight goes to position p.
SelectEvent(p) ==
    /\ InEventLoop
    /\ p < Len(items)
    /\ focus' = p
    /\ on_select
    /\ UNCHANGED <<cfgvars, sshells, fs, now, pc, running, launches, exit_status, stdout>>

\* Enter on the highlighted entry: on_submit with the item's value.
Submit ==
    /\ InEventLoop
    /\ focus < Len(items)
    /\ \E ok \in SpawnOutcomes(At(sshells, At(items, focus).value)) :
           Sshell_run(At(items, focus).value, "submit", ok)
    /\ UNCHANGED <<cfgvars, sshells, fs, now, timer, timer_lock, items, focus, running,
                   cancel_count, stdout>>

\* The 'q' key
Quit ==
    /\ InEventLoop
    /\ quit_callback
    /\ UNCHANGED <<cfgvars, sshells, fs, now, timer, timer_lock, items, focus,
                   cancel_count, stdout>>

\* siv.run() returns once is_running is false, and main returns.
RunReturns ==
    /\ pc = "ui"
    /\ ~running
    /\ pc' = "exited"
    /\ exit_status' = "success"
    /\ UNCHANGED <<cfgvars, sshells, fs, now, timer, timer_lock, items, focus, running,
                   launches, cancel_count, stdout>>

\* Time passes.
AdvanceClock ==
    /\ \/ pc = "start" /\ now < MaxStart
       \/ pc = "ui" /\ now < timer.end_time + MaxOver
    /\ now' = now + 1
    /\ UNCHANGED <<cfgvars, sshells, fs, pc, timer, timer_lock, items, focus, running,
                   launches, cancel_count, exit_status, stdout>>

Next ==
    \/ Main
    \/ Tick
    \/ \E p \in 0..(MaxShells - 1) : SelectEvent(p)
    \/ Submit
    \/ Quit
    \/ RunReturns
    \/ AdvanceClock

Spec == Init /\ [][Next]_vars

\* The countdown alone: no key is pressed.  Auto-refresh keeps delivering
\* Event::Refresh and the clock keeps advancing.
NextAuto ==
    \/ Main
    \/ Tick
    \/ AdvanceClock

SpecAuto ==
    /\ Init
    /\ [][NextAuto]_vars
    /\ WF_vars(Main)
    /\ WF_vars(Tick)
    /\ WF_vars(AdvanceClock)

----------------------------------------------------------------------------
\* The start of the program, with a configuration file of one or two entries:
\* one whose path is composed of path_parts, alone or before or after another
\* whose path names no variable.
OtherEntry == [name |-> "pwsh", path |-> <<"\\", "B">>, args |-> <<"-NoLogo">>]

InitConfig ==
    /\ path_parts \in Templates
    /\ env \in Envs
    /\ LET entry == [name |-> "cmd", path |-> Render(path_parts), args |-> <<>>]
       IN  cfg \in { <<entry>>, <<entry, OtherEntry>>, <<OtherEntry, entry>> }
    /\ sshells = <<>>
    /\ fs = {}
    /\ now = 0
    /\ pc = "config"
    /\ timer = [end_time |-> 0, active |-> FALSE]
    /\ items = <<>>
    /\ focus = 0
    /\ running = FALSE
    /\ launches = <<>>
    /\ cancel_count = 0
    /\ exit_status = "none"
    /\ timer_lock = "free"
    /\ stdout = <<>>

ReadConfig ==
    /\ read_config
    /\ UNCHANGED <<cfgvars, fs, now, timer, timer_lock, items, focus, running,
                   launches, cancel_count, stdout>>

NextConfig == ReadConfig

SpecConfig == InitConfig /\ [][NextConfig]_vars

----------------------------------------------------------------------------
(* Properties *)

SelectStep == \E p \in 0..(MaxShells - 1) : SelectEvent(p)

Existing == { i \in 0..(Len(sshells) - 1) : exists(At(sshells, i)) }

\* The configuration index of the p-th existing shell (p counted from 0).
NthExisting(p) ==
    CHOOSE i \in Existing : Cardinality({ j \in Existing : j < i }) = p

SubmitLaunched == Len(launches) > 0 /\ launches[1].by = "submit"

ExpiryLaunched == Len(launches) > 0 /\ launches[1].by = "expiry"

\* C1: once the UI has started and `active` is false, no step (tick, selection
\* event, confirmation, quit, passing time) makes it true again.
C1_ActiveOneShot ==
    [][(pc # "start" /\ ~timer.active) => ~timer'.active]_vars

\* The timer was cancelled, the highlight has moved, and time has passed the
\* deadline while the UI kept running.
C1_Witness ==
    /\ pc = "ui" /\ running
    /\ ~timer.active /\ cancel_count = 1
    /\ focus > 0
    /\ now > timer.end_time

\* C2: with no key pressed, a started UI always leads to the expiry launch: the
\* timer is no longer active, the UI has quit, and Sshell::run was called
\* exactly once, by the tick handler, at a time >= the deadline, for the entry
\* at configuration index 0.
C2_ExpiryLaunchesDefault ==
    (pc = "ui") ~>
        (/\ pc = "exited"
         /\ ~timer.active /\ ~running
         /\ now >= timer.end_time
         /\ Len(launches) = 1
         /\ launches[1].by = "expiry"
         /\ launches[1].index = DEFAULT_SHELL_INDEX
         /\ launches[1].expanded_path = At(sshells, DEFAULT_SHELL_INDEX).expanded_path
         /\ launches[1].args = At(sshells, DEFAULT_SHELL_INDEX).args)

\* The default shell was started by the expiry of the timer.
C2_Witness ==
    /\ pc = "exited" /\ exit_status = "success"
    /\ ExpiryLaunched /\ launches[1].started
    /\ launches[1].index = DEFAULT_SHELL_INDEX
    /\ Len(sshells) > 1

\* C3: on_select takes its cancelling branch at most once in a run; a selection
\* event that finds the timer active clears `active` and resets the label at
\* DEFAULT_SHELL_INDEX to the plain name; once cancelled, no step changes the
\* timer, takes the branch again or changes a label.
C3_CancelledOnce ==
    [][ /\ cancel_count' <= 1
        /\ (pc = "ui" /\ timer.active /\ SelectStep) =>
              /\ ~timer'.active
              /\ cancel_count' = 1
              /\ (Len(items) > 0 =>
                    At(items', DEFAULT_SHELL_INDEX).label =
                        PlainLabel(At(sshells, DEFAULT_SHELL_INDEX).name))
        /\ (pc = "ui" /\ ~timer.active) =>
              /\ timer' = timer
              /\ cancel_count' = cancel_count
              /\ items' = items ]_vars

\* Cancelled once, with the highlight back on the first entry of a list of
\* several, which shows the plain name again.
C3_Witness ==
    /\ pc = "ui" /\ running
    /\ ~timer.active /\ cancel_count = 1
    /\ Len(items) > 1 /\ focus = 0
    /\ At(items, DEFAULT_SHELL_INDEX).label =
           PlainLabel(At(sshells, DEFAULT_SHELL_INDEX).name)
    /\ now > 0

\* C4: while the timer is cancelled, the only step that calls Sshell::run is a
\* confirmation; a tick never does, whatever the time.
C4_CancelledNoAutoLaunch ==
    [][(pc = "ui" /\ ~timer.active /\ launches' # launches) =>
          (/\ Len(launches') = 1
           /\ launches'[1].by = "submit"
           /\ ~Tick)]_vars

\* A shell was confirmed after the cancelled timer's deadline had long passed.
C4_Witness ==
    /\ pc = "exited"
    /\ cancel_count = 1 /\ ~timer.active
    /\ SubmitLaunched
    /\ now = timer.end_time + MaxOver

\* C5: every confirmation calls Sshell::run with the configuration entry that
\* the highlighted list position stands for, the pos-th existing shell of the
\* configuration: its index, its expanded path and its args.
C5_SubmitLaunchesHighlighted ==
    \A k \in 1..Len(launches) :
        launches[k].by = "submit" =>
            /\ launches[k].pos < Cardinality(Existing)
            /\ launches[k].index = NthExisting(launches[k].pos)
            /\ launches[k].expanded_path =
                   At(sshells, NthExisting(launches[k].pos)).expanded_path
            /\ launches[k].args = At(sshells, NthExisting(launches[k].pos)).args
            /\ (NthExisting(launches[k].pos) # DEFAULT_SHELL_INDEX =>
                   launches[k].index # DEFAULT_SHELL_INDEX)

\* A confirmed entry below a filtered-out one: its list position differs from
\* its configuration index.
C5_Witness ==
    /\ SubmitLaunched
    /\ launches[1].pos > 0
    /\ launches[1].index # launches[1].pos
    /\ launches[1].started

\* C6: once a confirmation has called Sshell::run the process is over: no tick
\* handler can run, and no second launch follows.
C6_SubmitEndsEventLoop ==
    SubmitLaunched =>
        /\ pc = "exited"
        /\ exit_status # "none"
        /\ Len(launches) = 1
        /\ ~ENABLED Tick

\* A confirmation made while the timer was still active and its deadline had
\* already passed: the tick that would have expired it never ran.
C6_Witness ==
    /\ SubmitLaunched
    /\ timer.active
    /\ now >= timer.end_time

\* C7: when no configured shell exists, the UI does not start: main prints the
\* message and exits with success, with no timer started and nothing launched.
C7_NoExistingNoUi ==
    (pc # "start" /\ Existing = {}) =>
        /\ pc = "exited"
        /\ exit_status = "success"
        /\ stdout = <<NoShellsMessage>>
        /\ ~timer.active
        /\ launches = <<>>

\* C8: the values of the list are exactly the configuration indices of the
\* existing shells, in increasing order (so each once).
C8_ListIsFilteredConfig ==
    pc # "start" /\ Len(sshells) > 0 =>
        /\ { items[k].value : k \in 1..Len(items) } = Existing
        /\ \A k \in 1..(Len(items) - 1) : items[k].value < items[k + 1].value

\* A missing shell between two existing ones.
C8_Witness ==
    /\ pc = "ui"
    /\ Len(sshells) >= 3
    /\ Existing = {0, 2}
    /\ Len(items) = 2

\* C9: the quit callback launches nothing and leaves the process running with
\* is_running cleared; from there no step launches a shell or touches the
\* timer or the list, and the only way on is the clean exit of main.
C9_QuitLaunchesNothing ==
    [][ /\ (InEventLoop /\ Quit) =>
              /\ pc' = "ui" /\ ~running'
              /\ launches' = launches
              /\ exit_status' = "none"
        /\ (pc = "ui" /\ ~running) =>
              /\ launches' = launches
              /\ timer' = timer
              /\ items' = items
              /\ (pc' # pc => pc' = "exited" /\ exit_status' = "success") ]_vars

\* Quit while the timer was still active, past its deadline, and main returned.
C9_Witness ==
    /\ pc = "exited" /\ exit_status = "success"
    /\ ~running /\ Len(sshells) > 0
    /\ launches = <<>>
    /\ timer.active
    /\ now > timer.end_time

\* C10: setup_tui sets the deadline to the time of the UI's start plus
\* DEFAULT_TIMEOUT, and no later step changes it.
C10_DeadlineFixed ==
    [][ /\ (pc = "start" /\ pc' = "ui") =>
              timer'.end_time = now + DEFAULT_TIMEOUT * TicksPerSec
        /\ (pc = "ui") => timer'.end_time = timer.end_time ]_vars

\* The UI started late, and the timer was cancelled later than it started.
C10_Witness ==
    /\ pc = "ui"
    /\ cancel_count = 1
    /\ timer.end_time > DEFAULT_TIMEOUT * TicksPerSec
    /\ now > timer.end_time - DEFAULT_TIMEOUT * TicksPerSec
    /\ now < timer.end_time

\* The whole seconds of a duration, rounded up.
CeilSecs(duration) == (duration + TicksPerSec - 1) \div TicksPerSec

\* C11: a tick that finds the timer active and the deadline not reached sets
\* the label at DEFAULT_SHELL_INDEX to the default shell's name followed by the
\* ceiling of the remaining seconds.
C11_CountdownIsCeiling ==
    [][(InEventLoop /\ timer.active /\ now < timer.end_time /\ Len(items) > 0
        /\ Tick) =>
          At(items', DEFAULT_SHELL_INDEX).label =
              CountdownLabel(At(sshells, DEFAULT_SHELL_INDEX).name,
                             CeilSecs(timer.end_time - now))]_vars

NoLiteralPercent ==
    \A k \in 1..Len(path_parts) :
        path_parts[k].kind = "lit" => path_parts[k].text # <<"%">>

ReferencedNames ==
    { path_parts[k].text : k \in { j \in 1..Len(path_parts) : path_parts[j].kind = "var" } }

\* The path with each token replaced by its variable's value and every other
\* character kept.
RECURSIVE Subst(_)
Subst(parts) ==
    IF parts = <<>> THEN <<>>
    ELSE (IF Head(parts).kind = "var" THEN env[Head(parts).text] ELSE Head(parts).text)
             \o Subst(Tail(parts))

\* Some part of s has the form %NAME%.
HasToken(s) ==
    \E i, j \in 1..Len(s) :
        /\ i + 1 < j
        /\ s[i] = "%" /\ s[j] = "%"
        /\ \A k \in (i + 1)..(j - 1) : s[k] \in WordChars

TestedIndex == CHOOSE k \in 1..Len(cfg) : cfg[k].name = "cmd"

\* C13: when the path under test names an undefined variable, read_config
\* does not return: the process panics, and no entry (expanded, partly expanded
\* or skipped) reaches main.  Conversely, a configuration that read_config
\* returns names defined variables only.
C13_UndefinedVariableAborts ==
    (pc # "config" /\ NoLiteralPercent) =>
        /\ (\E n \in ReferencedNames : n \notin DOMAIN env) =>
              (pc = "exited" /\ exit_status = "panic" /\ sshells = <<>>)
        /\ pc = "start" =>
              (ReferencedNames \subseteq DOMAIN env /\ Len(sshells) = Len(cfg))

\* An undefined token between two defined ones, in the second entry of the
\* configuration; everything else resolves.
C13_Witness ==
    /\ pc = "exited" /\ exit_status = "panic"
    /\ <<"S">> \in DOMAIN env
    /\ Len(cfg) = 2 /\ cfg[1] = OtherEntry
    /\ Len(path_parts) = 3
    /\ \A k \in 1..3 : path_parts[k].kind = "var"
    /\ path_parts[1].text \in DOMAIN env
    /\ path_parts[2].text \notin DOMAIN env
    /\ path_parts[3].text \in DOMAIN env

\* C14: with every referenced variable defined, the expanded path is the path
\* with each token replaced by its variable's value and every other character
\* kept; a path with nothing of the form %NAME% in it is returned as it is.
C14_ExpansionReplacesTokens ==
    (pc # "config" /\ <<"S">> \in DOMAIN env) =>
        /\ (NoLiteralPercent /\ ReferencedNames \subseteq DOMAIN env) =>
              /\ pc = "start"
              /\ sshells[TestedIndex].expanded_path = Subst(path_parts)
        /\ (\A k \in 1..Len(cfg) : ~HasToken(cfg[k].path)) => pc = "start"
        /\ \A k \in 1..Len(sshells) :
              ~HasToken(cfg[k].path) => sshells[k].expanded_path = cfg[k].path

\* Two distinct tokens around a literal character, all resolved.
C14_Witness ==
    /\ pc = "start"
    /\ Len(path_parts) = 3
    /\ path_parts[1].kind = "var" /\ path_parts[3].kind = "var"
    /\ path_parts[1].text # path_parts[3].text
    /\ path_parts[2] = [kind |-> "lit", text |-> <<"\\">>]
    /\ sshells[TestedIndex].expanded_path # cfg[TestedIndex].path

ListedIndices == { items[k].value : k \in 1..Len(items) }

\* C15: every shell Sshell::run is called with, by confirmation or by expiry,
\* is an entry of the list: its index is the value of an item, and its path
\* existed when the list was built.
C15_LaunchedIsListed ==
    \A k \in 1..Len(launches) :
        /\ launches[k].index \in ListedIndices
        /\ exists(At(sshells, launches[k].index))

\* C16: the label at every list position starts with the name of the shell
\* that confirming that position runs.
C16_LabelNamesItsShell ==
    pc \in {"ui", "exited"} =>
        \A k \in 1..Len(items) :
            items[k].label[1] = At(sshells, items[k].value).name

\* C17: once on_select has cancelled the timer, no label of the list carries a
\* countdown suffix, and the label at DEFAULT_SHELL_INDEX is the plain name of
\* the default shell: right after the cancelling step and in every later state.
C17_CancelledLabelIsPlain ==
    cancel_count > 0 =>
        /\ ~timer.active
        /\ \A k \in 1..Len(items) : Len(items[k].label) = 1
        /\ Len(items) > 0 =>
              At(items, DEFAULT_SHELL_INDEX).label =
                  PlainLabel(At(sshells, DEFAULT_SHELL_INDEX).name)

\* Cancelled before the deadline, with ticks still arriving.
C17_Witness ==
    /\ InEventLoop
    /\ ~timer.active /\ cancel_count = 1
    /\ Len(items) > 1 /\ focus > 0
    /\ now > 0 /\ now < timer.end_time

\* C18: a launch that is not a confirmation happens only in a step from a
\* state of the event loop with the timer active and the time at or past the
\* deadline; a tick that finds the timer active and the deadline not reached
\* changes nothing but the label at DEFAULT_SHELL_INDEX.
C18_AutoLaunchOnlyAtDeadline ==
    [][ /\ (launches' # launches /\ launches'[Len(launches')].by # "submit") =>
              (InEventLoop /\ timer.active /\ now >= timer.end_time /\ Tick)
        /\ (InEventLoop /\ timer.active /\ now < timer.end_time /\ Tick) =>
              /\ launches' = launches
              /\ pc' = pc /\ running' = running /\ exit_status' = exit_status
              /\ timer' = timer /\ focus' = focus
              /\ Len(items') = Len(items)
              /\ \A k \in 1..Len(items) :
                    /\ items'[k].value = items[k].value
                    /\ k # DEFAULT_SHELL_INDEX + 1 => items'[k] = items[k] ]_vars

\* The default shell was run by the tick at the very instant of the deadline.
C18_Witness ==
    /\ ExpiryLaunched
    /\ now = timer.end_time
    /\ Len(items) > 1

\* C19: Sshell::run is called at most once; after it the process is over, with
\* success when the shell started and a panic when it did not, and no step
\* of the program follows.
C19_AtMostOneLaunch ==
    /\ Len(launches) <= 1
    /\ Len(launches) = 1 =>
          /\ pc = "exited"
          /\ exit_status = (IF launches[1].started THEN "success" ELSE "panic")
          /\ ~ENABLED Next

\* A confirmed shell that existed but failed to start.
C19_Witness ==
    /\ SubmitLaunched
    /\ ~launches[1].started
    /\ exists(At(sshells, launches[1].index))
    /\ exit_status = "panic"

\* C20: while the timer is active the highlight is on list position 0, and an
\* expiry launch happens only with the highlight there and no cancellation.
C20_ActiveHighlightAtZero ==
    /\ (pc = "ui" /\ timer.active) => (focus = 0 /\ cancel_count = 0)
    /\ ExpiryLaunched =>
          (launches[1].pos = 0 /\ focus = 0 /\ cancel_count = 0)

\* The timer expired over a list of several entries whose highlight never moved.
C20_Witness ==
    /\ ExpiryLaunched
    /\ Len(items) > 2
    /\ focus = 0
    /\ launches[1].started

====
